---- MODULE Spec2Model ----
(***************************************************************************)
(* Model of JavaScriptCore's DebuggerPausePositions                        *)
(* (Source/JavaScriptCore/debugger/DebuggerParseData.cpp): the index of    *)
(* pause positions a parse pass fills, sort() orders, and the debugger     *)
(* queries with firstPositionAfter, breakpointLocationForLineColumn and    *)
(* forEachBreakpointLocation.                                              *)
(***************************************************************************)
EXTENDS Integers, Sequences, FiniteSets, TLC

(* ------------------------------ bounds --------------------------------- *)

\* The parse pass appends at most MaxLen records.
MaxLen == 4

\* At most MaxRawLen records are appended when their line, column and offset
\* are chosen freely.
MaxRawLen == 3

\* Most records one parse pass appends before it ends.
MaxParsed == 3

\* Most arguments a stackmap special ignores on the B3 side, and on the Air
\* side.
MaxIgnored == 2

\* Most children of a StackmapValue.
MaxChildren == 2

\* Greatest argIndex asked about.
MaxArgIndex == 4

\* Most calls of advance() on one ComplexTextController.
MaxAdvances == 2

\* The parse pass appends at most MaxShared records to an index that reader
\* threads share.
MaxShared == 2

(* ------------------------- DebuggerParseData.h -------------------------- *)

\* enum class DebuggerPausePositionType, by ordinal.
Invalid == 0

Enter == 1

Normal == 2

Leave == 3

StoredTypes == {Enter, Normal, Leave}

\* JSTextPosition(line, offset, lineStartOffset).
JSTextPosition(line, offset, lineStartOffset) ==
    [line |-> line, offset |-> offset, lineStartOffset |-> lineStartOffset]

\* JSTextPosition::column()
column(position) == position.offset - position.lineStartOffset

\* A default-constructed JSTextPosition.
NoPosition == JSTextPosition(-1, -1, -1)

\* struct DebuggerPausePosition { type; position; }
DebuggerPausePosition(type, position) == [type |-> type, position |-> position]

(* ----------------------------- source text ------------------------------ *)

\* The source text of the compilation unit that is parsed: the number of
\* characters of each of its lines, the line terminator not counted.
SourceText == << 2, 2 >>

\* The offset of the first character of a line (lines are counted from 1).
RECURSIVE LineStartOffset(_)
LineStartOffset(line) ==
    IF line = 1 THEN 0
    ELSE LineStartOffset(line - 1) + SourceText[line - 1] + 1

\* The position of the character at (line, col): one offset for each line
\* and column, growing with (line, column).
SourcePosition(line, col) ==
    JSTextPosition(line, LineStartOffset(line) + col, LineStartOffset(line))

SourcePositions ==
    UNION {{SourcePosition(l, c) : c \in 0..(SourceText[l] - 1)} :
               l \in 1..Len(SourceText)}

\* Lines and columns a debugger front end asks about: the lines of the
\* text, the line before and the line behind it.
QueryLines == 0..(Len(SourceText) + 1)

QueryColumns ==
    UNION {0..(SourceText[l] - 1) : l \in 1..Len(SourceText)}

(* ---------------------------- std::optional ----------------------------- *)

\* pastEnd records that the call dereferenced an iterator at or past
\* m_positions.end().
nullopt == [hasValue |-> FALSE, value |-> NoPosition, pastEnd |-> FALSE]

Some(position) == [hasValue |-> TRUE, value |-> position, pastEnd |-> FALSE]

ReadPastEnd == [hasValue |-> FALSE, value |-> NoPosition, pastEnd |-> TRUE]

\* Iterators are indexes 1..Len; Len + 1 is m_positions.end().
End(positions) == Len(positions) + 1

(* ------------------------------- sort() --------------------------------- *)

\* Variant of SortLess: at equal offsets the greater type comes first.
SortLessTypeDescending(a, b) ==
    IF a.position.offset = b.position.offset
    THEN a.type > b.type
    ELSE a.position.offset < b.position.offset

\* Variant of SortLess: line and column are compared, not the offset.
SortLessByLineColumn(a, b) ==
    IF a.position.line = b.position.line /\ column(a.position) = column(b.position)
    THEN a.type < b.type
    ELSE \/ a.position.line < b.position.line
         \/ /\ a.position.line = b.position.line
            /\ column(a.position) < column(b.position)

\* Variant of SortLess: the type is compared before the offset.
SortLessTypeFirst(a, b) ==
    IF a.type = b.type
    THEN a.position.offset < b.position.offset
    ELSE a.type < b.type

\* The comparator of DebuggerPausePositions::sort.
SortLess(a, b) ==
    IF a.position.offset = b.position.offset
    THEN a.type < b.type
    ELSE a.position.offset < b.position.offset

\* Variant of InsertByOffset: the record is put in front, with no
\* comparison.
InsertByOffsetFront(s, r) == << r >> \o s

\* Insert record r into the sorted sequence s, after the records that are
\* not greater than r.
RECURSIVE InsertByOffset(_, _)
InsertByOffset(s, r) ==
    IF s = << >> THEN << r >>
    ELSE IF SortLess(r, Head(s)) THEN << r >> \o s
    ELSE << Head(s) >> \o InsertByOffset(Tail(s), r)

\* std::sort(m_positions.begin(), m_positions.end(), SortLess)
RECURSIVE SortedByOffset(_)
SortedByOffset(s) ==
    IF s = << >> THEN << >>
    ELSE InsertByOffset(SortedByOffset(SubSeq(s, 1, Len(s) - 1)), s[Len(s)])

\* Variant of InsertOutcomes: a record that is already stored is not stored
\* again.
InsertOutcomesUnique(s, r) ==
    IF \E j \in 1..Len(s) : s[j] = r THEN {s}
    ELSE {SubSeq(s, 1, k) \o << r >> \o SubSeq(s, k + 1, Len(s)) :
             k \in {n \in 0..Len(s) :
                       /\ \A j \in 1..n : ~SortLess(r, s[j])
                       /\ \A j \in (n + 1)..Len(s) : ~SortLess(s[j], r)}}

\* What std::sort may leave when records that compare equal differ (in line
\* or column): every ordering of s in which no record is less than one
\* before it.  InsertOutcomes puts r at each place of the ordered sequence s
\* that keeps it ordered.
InsertOutcomes(s, r) ==
    {SubSeq(s, 1, k) \o << r >> \o SubSeq(s, k + 1, Len(s)) :
        k \in {n \in 0..Len(s) :
                  /\ \A j \in 1..n : ~SortLess(r, s[j])
                  /\ \A j \in (n + 1)..Len(s) : ~SortLess(s[j], r)}}

RECURSIVE SortOutcomes(_)
SortOutcomes(s) ==
    IF s = << >> THEN {<< >>}
    ELSE UNION {InsertOutcomes(t, s[Len(s)]) :
                    t \in SortOutcomes(SubSeq(s, 1, Len(s) - 1))}

(* ------------------------- firstPositionAfter --------------------------- *)

\* Variant of LineColumnLess: columns compared with <= (an upper bound).
LineColumnLessOrEqual(a, b) ==
    IF a.position.line = b.position.line
    THEN column(a.position) <= column(b.position)
    ELSE a.position.line < b.position.line

\* The comparator handed to std::lower_bound.
LineColumnLess(a, b) ==
    IF a.position.line = b.position.line
    THEN column(a.position) < column(b.position)
    ELSE a.position.line < b.position.line

\* std::lower_bound over positions[first .. first + count - 1].
RECURSIVE lower_bound(_, _, _, _)
lower_bound(positions, first, count, value) ==
    IF count <= 0 THEN first
    ELSE LET step == count \div 2
             mid == first + step
         IN IF LineColumnLess(positions[mid], value)
            THEN lower_bound(positions, mid + 1, count - (step + 1), value)
            ELSE lower_bound(positions, first, step, value)

\* Variant of firstPositionAfter: the search key is built from the line
\* alone.
firstPositionAfterLineStart(positions, line, col) ==
    lower_bound(positions, 1, Len(positions),
                DebuggerPausePosition(Invalid, JSTextPosition(line, 0, 0)))

firstPositionAfter(positions, line, col) ==
    lower_bound(positions, 1, Len(positions),
                DebuggerPausePosition(Invalid, JSTextPosition(line, col, 0)))

(* ------------------- breakpointLocationForLineColumn -------------------- *)

\* Variant of RollForward: an if in place of the while.
RollForwardOnce(positions, it) ==
    IF it >= Len(positions) + 1 THEN Len(positions) + 1
    ELSE IF positions[it].type = Enter THEN it + 1
    ELSE it

\* Variant of RollForward: the loop goes on until it meets a Normal record.
RECURSIVE RollForwardToNormal(_, _)
RollForwardToNormal(positions, it) ==
    IF it >= Len(positions) + 1 THEN Len(positions) + 1
    ELSE IF positions[it].type # Normal THEN RollForwardToNormal(positions, it + 1)
    ELSE it

\* while (it->type == DebuggerPausePositionType::Enter) ++it;
\* There is no bounds check: the result End(positions) means that the loop
\* dereferenced m_positions.end().
RECURSIVE RollForward(_, _)
RollForward(positions, it) ==
    IF it >= End(positions) THEN End(positions)
    ELSE IF positions[it].type = Enter THEN RollForward(positions, it + 1)
    ELSE it

\* Variant of SlideLoop: an Enter met while skipping does not deepen the
\* skip.
RECURSIVE SlideLoopFlat(_, _, _)
SlideLoopFlat(positions, it, entryStackSize) ==
    IF it = Len(positions) + 1 THEN nullopt
    ELSE LET slidePosition == positions[it]
         IN IF entryStackSize # 0
            THEN SlideLoopFlat(positions, it + 1,
                               IF slidePosition.type = Leave THEN entryStackSize - 1
                               ELSE entryStackSize)
            ELSE IF slidePosition.type = Enter
            THEN SlideLoopFlat(positions, it + 1, entryStackSize + 1)
            ELSE Some(slidePosition.position)

\* Variant of SlideLoop: a scan that runs out of records returns the last
\* record's position.
RECURSIVE SlideLoopLast(_, _, _)
SlideLoopLast(positions, it, entryStackSize) ==
    IF it = Len(positions) + 1 THEN Some(positions[Len(positions)].position)
    ELSE LET slidePosition == positions[it]
         IN IF entryStackSize # 0
            THEN SlideLoopLast(positions, it + 1,
                               IF slidePosition.type = Enter THEN entryStackSize + 1
                               ELSE IF slidePosition.type = Leave THEN entryStackSize - 1
                               ELSE entryStackSize)
            ELSE IF slidePosition.type = Enter
            THEN SlideLoopLast(positions, it + 1, entryStackSize + 1)
            ELSE Some(slidePosition.position)

\* for (; it != m_positions.end(); ++it) { ... } with the depth counter
\* entryStackSize.
RECURSIVE SlideLoop(_, _, _)
SlideLoop(positions, it, entryStackSize) ==
    IF it = End(positions) THEN nullopt
    ELSE LET slidePosition == positions[it]
         IN IF entryStackSize # 0
            THEN SlideLoop(positions, it + 1,
                           IF slidePosition.type = Enter THEN entryStackSize + 1
                           ELSE IF slidePosition.type = Leave THEN entryStackSize - 1
                           ELSE entryStackSize)
            ELSE IF slidePosition.type = Enter
            THEN SlideLoop(positions, it + 1, entryStackSize + 1)
            ELSE Some(slidePosition.position)

\* Variant of SlideLoopDepths: a Leave lowers the counter at any depth.
RECURSIVE SlideLoopDepthsUnguarded(_, _, _)
SlideLoopDepthsUnguarded(positions, it, entryStackSize) ==
    IF it = Len(positions) + 1 THEN << >>
    ELSE LET slidePosition == positions[it]
         IN << entryStackSize >>
            \o (IF slidePosition.type = Leave
                THEN SlideLoopDepthsUnguarded(positions, it + 1, entryStackSize - 1)
                ELSE IF slidePosition.type = Enter
                THEN SlideLoopDepthsUnguarded(positions, it + 1, entryStackSize + 1)
                ELSE IF entryStackSize # 0
                THEN SlideLoopDepthsUnguarded(positions, it + 1, entryStackSize)
                ELSE << >>)

\* The values ASSERT(entryStackSize >= 0) tests, one for every iteration of
\* the loop of SlideLoop, in the order of the iterations.
RECURSIVE SlideLoopDepths(_, _, _)
SlideLoopDepths(positions, it, entryStackSize) ==
    IF it = End(positions) THEN << >>
    ELSE LET slidePosition == positions[it]
         IN << entryStackSize >>
            \o (IF entryStackSize # 0
                THEN SlideLoopDepths(positions, it + 1,
                         IF slidePosition.type = Enter THEN entryStackSize + 1
                         ELSE IF slidePosition.type = Leave THEN entryStackSize - 1
                         ELSE entryStackSize)
                ELSE IF slidePosition.type = Enter
                THEN SlideLoopDepths(positions, it + 1, entryStackSize + 1)
                ELSE << >>)

\* ASSERT(line <= it->position.line);
\* ASSERT(line != it->position.line || column <= it->position.column());
EntryAssertions(positions, line, col, it) ==
    /\ line <= positions[it].position.line
    /\ line # positions[it].position.line \/ col <= column(positions[it].position)

\* Variant of breakpointLocationForLineColumnAt: the scan always starts as a
\* skip (entryStackSize 1).
breakpointLocationAlwaysSkip(positions, line, col, it) ==
    IF it = End(positions) THEN nullopt
    ELSE IF line = positions[it].position.line /\ col = column(positions[it].position)
    THEN LET stop == RollForward(positions, it)
         IN IF stop = End(positions) THEN ReadPastEnd
            ELSE Some(positions[stop].position)
    ELSE LET firstSlidePosition == positions[it]
         IN IF firstSlidePosition.type # Enter
            THEN Some(firstSlidePosition.position)
            ELSE SlideLoop(positions, it + 1, 1)

\* Variant of breakpointLocationForLineColumnAt: only a Normal record is
\* used directly, a Leave starts a scan as an Enter does.
breakpointLocationScanFromLeave(positions, line, col, it) ==
    IF it = End(positions) THEN nullopt
    ELSE IF line = positions[it].position.line /\ col = column(positions[it].position)
    THEN LET stop == RollForward(positions, it)
         IN IF stop = End(positions) THEN ReadPastEnd
            ELSE Some(positions[stop].position)
    ELSE LET firstSlidePosition == positions[it]
         IN IF firstSlidePosition.type = Normal
            THEN Some(firstSlidePosition.position)
            ELSE LET shouldEnterFunction == firstSlidePosition.position.line = line
                     entryStackSize == IF shouldEnterFunction THEN 0 ELSE 1
                 IN SlideLoop(positions, it + 1, entryStackSize)

\* breakpointLocationForLineColumn(int line, int column, iterator it)
breakpointLocationForLineColumnAt(positions, line, col, it) ==
    IF it = End(positions) THEN nullopt
    ELSE IF line = positions[it].position.line /\ col = column(positions[it].position)
    THEN LET stop == RollForward(positions, it)
         IN IF stop = End(positions) THEN ReadPastEnd
            ELSE Some(positions[stop].position)
    ELSE LET firstSlidePosition == positions[it]
         IN IF firstSlidePosition.type # Enter
            THEN Some(firstSlidePosition.position)
            ELSE LET shouldEnterFunction == firstSlidePosition.position.line = line
                     entryStackSize == IF shouldEnterFunction THEN 0 ELSE 1
                 IN SlideLoop(positions, it + 1, entryStackSize)

\* breakpointLocationForLineColumn(int line, int column)
breakpointLocationForLineColumn(positions, line, col) ==
    breakpointLocationForLineColumnAt(positions, line, col,
                                      firstPositionAfter(positions, line, col))

\* What a read of the memory behind the last record can give: the process
\* dies, or the loop stops on some bytes that are not Enter and returns the
\* JSTextPosition found there, which need not be a position of the source
\* text.  Every such read of one call starts at m_positions.end(), so one
\* call sees one outcome.
GarbagePositions == {JSTextPosition(0, 0, 0), JSTextPosition(1, 1, 1)}

PastEndOutcomes ==
    {[crash |-> TRUE, value |-> NoPosition]}
        \cup {[crash |-> FALSE, value |-> g] : g \in GarbagePositions}

(* ---------------------- forEachBreakpointLocation ----------------------- *)

\* Variant of isAfterEnd: the end column itself counts as inside.
isStrictlyAfterEnd(line, col, endLine, endColumn) ==
    (line = endLine /\ col > endColumn) \/ line > endLine

\* (line == endLine && column >= endColumn) || line > endLine
isAfterEnd(line, col, endLine, endColumn) ==
    (line = endLine /\ col >= endColumn) \/ line > endLine

\* Variant of appendIfNotContains: a plain append.
appendAlways(v, x) == Append(v, x)

\* Vector::appendIfNotContains, with JSTextPosition's operator==.
appendIfNotContains(v, x) ==
    IF \E i \in 1..Len(v) : v[i] = x THEN v ELSE Append(v, x)

\* Variant of CollectLoop: a resolved position is not tested against the end
\* of the range.
RECURSIVE CollectLoopNoEndFilter(_, _, _, _, _, _)
CollectLoopNoEndFilter(positions, it, endLine, endColumn, acc, outcome) ==
    IF it = End(positions) THEN acc
    ELSE LET line == positions[it].position.line
             col == column(positions[it].position)
         IN IF isAfterEnd(line, col, endLine, endColumn) THEN acc
            ELSE LET r == breakpointLocationForLineColumnAt(positions, line, col, it)
                 IN IF r.pastEnd /\ outcome.crash
                    THEN [uniquePositions |-> << >>, fault |-> "crash"]
                    ELSE LET resolvedPosition ==
                                 IF r.pastEnd THEN Some(outcome.value) ELSE r
                         IN CollectLoopNoEndFilter(positions, it + 1, endLine, endColumn,
                                [uniquePositions |->
                                     IF resolvedPosition.hasValue
                                     THEN appendIfNotContains(acc.uniquePositions,
                                                              resolvedPosition.value)
                                     ELSE acc.uniquePositions,
                                 fault |-> IF r.pastEnd THEN "garbage" ELSE acc.fault],
                                outcome)

\* The loop over the raw records; acc holds uniquePositions and what
\* happened to the process so far.
RECURSIVE CollectLoop(_, _, _, _, _, _)
CollectLoop(positions, it, endLine, endColumn, acc, outcome) ==
    IF it = End(positions) THEN acc
    ELSE LET line == positions[it].position.line
             col == column(positions[it].position)
         IN IF isAfterEnd(line, col, endLine, endColumn) THEN acc
            ELSE LET r == breakpointLocationForLineColumnAt(positions, line, col, it)
                 IN IF r.pastEnd /\ outcome.crash
                    THEN [uniquePositions |-> << >>, fault |-> "crash"]
                    ELSE LET resolvedPosition ==
                                 IF r.pastEnd THEN Some(outcome.value) ELSE r
                             keep ==
                                 /\ resolvedPosition.hasValue
                                 /\ ~isAfterEnd(resolvedPosition.value.line,
                                                column(resolvedPosition.value),
                                                endLine, endColumn)
                         IN CollectLoop(positions, it + 1, endLine, endColumn,
                                [uniquePositions |->
                                     IF keep
                                     THEN appendIfNotContains(acc.uniquePositions,
                                                              resolvedPosition.value)
                                     ELSE acc.uniquePositions,
                                 fault |-> IF r.pastEnd THEN "garbage" ELSE acc.fault],
                                outcome)

\* The comparator of the std::sort of uniquePositions.
PositionLess(a, b) ==
    IF a.line = b.line THEN column(a) < column(b) ELSE a.line < b.line

RECURSIVE InsertByLineColumn(_, _)
InsertByLineColumn(s, p) ==
    IF s = << >> THEN << p >>
    ELSE IF PositionLess(p, Head(s)) THEN << p >> \o s
    ELSE << Head(s) >> \o InsertByLineColumn(Tail(s), p)

\* std::sort(uniquePositions.begin(), uniquePositions.end(), PositionLess)
RECURSIVE SortedByLineColumn(_)
SortedByLineColumn(s) ==
    IF s = << >> THEN << >>
    ELSE InsertByLineColumn(SortedByLineColumn(SubSeq(s, 1, Len(s) - 1)), s[Len(s)])

\* The sequence of callback arguments, and what happened to the process.
forEachBreakpointLocation(positions, startLine, startColumn, endLine, endColumn, outcome) ==
    LET collected == CollectLoop(positions,
                                 firstPositionAfter(positions, startLine, startColumn),
                                 endLine, endColumn,
                                 [uniquePositions |-> << >>, fault |-> "none"],
                                 outcome)
    IN [callbacks |-> SortedByLineColumn(collected.uniquePositions),
        fault |-> collected.fault]

(* ------------------------------ the index ------------------------------- *)

VARIABLES
    m_positions,  \* DebuggerPausePositions::m_positions
    sorted,       \* sort() has run
    op,           \* the last operation
    args,         \* its arguments
    it,           \* the iterator firstPositionAfter returned
    result,       \* the optional breakpointLocationForLineColumn returned
    visited,      \* the positions forEachBreakpointLocation gave its callback
    fault,        \* "none", "garbage" (a read past the end that went on), "crash"
    gather,       \* the call of gatherDebuggerParseDataForSource
    m_isMarked,   \* PreciseAllocation::m_isMarked
    markers,      \* the marker threads that call testAndSetMarked()
    admits,       \* the call of StackmapSpecial::admitsStackImpl
    controller,   \* a ComplexTextController
    disassembler, \* an Air::Disassembler
    readers       \* the threads that query the index at the same time

\* The variables of the pause position index, and those of the other
\* classes.
indexVars == << m_positions, sorted, op, args, it, result, visited, fault, gather >>

markVars == << m_isMarked, markers >>

stackmapVars == << admits >>

controllerVars == << controller >>

disassemblerVars == << disassembler >>

readerVars == << readers >>

elsewhere ==
    << markVars, stackmapVars, controllerVars, disassemblerVars, readerVars >>

vars == << indexVars, elsewhere >>

\* No call of gatherDebuggerParseDataForSource is under way: pc is the place
\* of the call, sourceType the provider's source type, rootNode whether the
\* parse gave a root node, sortCalls the number of calls of sort(), returned
\* the value returned ("none" before the return).
GatherIdle ==
    [pc |-> "idle", sourceType |-> "none", rootNode |-> FALSE, sortCalls |-> 0,
     returned |-> "none"]

\* The marker threads.
Markers == {"marker1", "marker2", "marker3", "marker4"}

\* A marker thread that has not called testAndSetMarked(): pc is its place
\* in the call, observed whether it has read the set bit, setBit whether its
\* compare-and-swap set the bit, returned the value of the call and seen the
\* value of the isMarked() it calls afterwards ("none" before).
MarkerIdle ==
    [pc |-> "idle", observed |-> FALSE, setBit |-> FALSE, returned |-> "none",
     seen |-> "none"]

\* No call of admitsStackImpl has been made: its arguments, the children and
\* the constraints of the StackmapValue, and what it returned.
AdmitsIdle ==
    [pc |-> "idle", numIgnoredB3Args |-> 0, numIgnoredAirArgs |-> 0, argIndex |-> 0,
     numChildren |-> 0, m_reps |-> << >>, returned |-> FALSE]

\* No ComplexTextController has been constructed.
NoController == [pc |-> "none"]

\* The Air::Disassembler after its construction: m_instToRange is empty, no
\* call of addInst has been made (call holds the arguments of the last one)
\* or has completed, and no release assertion has failed.
NewDisassembler ==
    [m_instToRange |-> [inst \in {} |-> << >>],
     call |-> [inst |-> "none", range |-> << >>],
     completed |-> << >>, crashed |-> FALSE]

\* The reader threads.
Readers == {"reader1", "reader2"}

\* A reader that has not called a query: pc is its place in the call, kind
\* and args the query, it the iterator its firstPositionAfter returned,
\* result, visited and fault what the query gave it, and overlap whether
\* another reader was inside a query at one of its steps.
ReaderIdle ==
    [pc |-> "idle", kind |-> "none", args |-> << >>, it |-> 0, result |-> nullopt,
     visited |-> << >>, fault |-> "none", overlap |-> FALSE]

Init ==
    /\ m_positions = << >>
    /\ sorted = FALSE
    /\ op = "init"
    /\ args = << >>
    /\ it = 0
    /\ result = nullopt
    /\ visited = << >>
    /\ fault = "none"
    /\ gather = GatherIdle
    /\ m_isMarked = FALSE
    /\ markers = [t \in Markers |-> MarkerIdle]
    /\ admits = AdmitsIdle
    /\ controller = NoController
    /\ disassembler = NewDisassembler
    /\ readers = [r \in Readers |-> ReaderIdle]

\* appendEntry / appendLeave / appendPause, called by the parse pass.
AppendPosition(type, position) ==
    /\ ~sorted
    /\ Len(m_positions) < MaxLen
    /\ m_positions' = Append(m_positions, DebuggerPausePosition(type, position))
    /\ op' = "append"
    /\ args' = << >>
    /\ UNCHANGED << sorted, it, result, visited, fault, gather >>
    /\ UNCHANGED elsewhere

\* DebuggerPausePositions::sort(), run by gatherDebuggerParseData when the
\* parse is over, and once more on the index it has sorted.  Records of one
\* source text that compare equal are equal, so std::sort has one outcome.
Sort ==
    /\ ~sorted \/ op = "sort"
    /\ m_positions' = SortedByOffset(m_positions)
    /\ sorted' = TRUE
    /\ op' = IF sorted THEN "sortAgain" ELSE "sort"
    /\ args' = << >>
    /\ UNCHANGED << it, result, visited, fault, gather >>
    /\ UNCHANGED elsewhere

\* A behaviour is one parse (appends, then sort()) followed by one query of
\* the debugger.  The queries leave m_positions and sorted as they are, so a
\* further query would start from the same index.
QueryReady == sorted /\ op = "sort"

FirstPositionAfter(line, col) ==
    /\ QueryReady
    /\ op' = "firstPositionAfter"
    /\ args' = << line, col >>
    /\ it' = firstPositionAfter(m_positions, line, col)
    /\ result' = nullopt
    /\ visited' = << >>
    /\ fault' = "none"
    /\ UNCHANGED << m_positions, sorted, gather >>
    /\ UNCHANGED elsewhere

BreakpointLocationForLineColumn(line, col, outcome) ==
    /\ QueryReady
    /\ op' = "breakpointLocationForLineColumn"
    /\ args' = << line, col >>
    /\ LET r == breakpointLocationForLineColumn(m_positions, line, col)
       IN /\ result' = IF r.pastEnd
                       THEN (IF outcome.crash THEN nullopt ELSE Some(outcome.value))
                       ELSE r
          /\ fault' = IF r.pastEnd
                      THEN (IF outcome.crash THEN "crash" ELSE "garbage")
                      ELSE "none"
    /\ it' = 0
    /\ visited' = << >>
    /\ UNCHANGED << m_positions, sorted, gather >>
    /\ UNCHANGED elsewhere

\* The records of s without those that repeat an earlier one.
RECURSIVE WithoutRepeats(_)
WithoutRepeats(s) ==
    IF s = << >> THEN << >>
    ELSE appendIfNotContains(WithoutRepeats(SubSeq(s, 1, Len(s) - 1)), s[Len(s)])

\* Variant of ForEachBreakpointLocation: the duplicates are also dropped
\* from m_positions.
ForEachBreakpointLocationInPlace(startLine, startColumn, endLine, endColumn, outcome) ==
    /\ sorted /\ op = "sort"
    /\ op' = "forEachBreakpointLocation"
    /\ args' = << startLine, startColumn, endLine, endColumn >>
    /\ LET r == forEachBreakpointLocation(m_positions, startLine, startColumn,
                                          endLine, endColumn, outcome)
       IN /\ visited' = r.callbacks
          /\ fault' = r.fault
    /\ it' = 0
    /\ result' = nullopt
    /\ m_positions' = WithoutRepeats(m_positions)
    /\ UNCHANGED << sorted, gather >>
    /\ UNCHANGED elsewhere

ForEachBreakpointLocation(startLine, startColumn, endLine, endColumn, outcome) ==
    /\ QueryReady
    /\ op' = "forEachBreakpointLocation"
    /\ args' = << startLine, startColumn, endLine, endColumn >>
    /\ LET r == forEachBreakpointLocation(m_positions, startLine, startColumn,
                                          endLine, endColumn, outcome)
       IN /\ visited' = r.callbacks
          /\ fault' = r.fault
    /\ it' = 0
    /\ result' = nullopt
    /\ UNCHANGED << m_positions, sorted, gather >>
    /\ UNCHANGED elsewhere

Next ==
    \/ \E type \in StoredTypes, position \in SourcePositions :
           AppendPosition(type, position)
    \/ Sort
    \/ \E line \in QueryLines, col \in QueryColumns : FirstPositionAfter(line, col)
    \/ \E line \in QueryLines, col \in QueryColumns, outcome \in PastEndOutcomes :
           BreakpointLocationForLineColumn(line, col, outcome)
    \/ \E startLine \in QueryLines, startColumn \in QueryColumns,
          endLine \in QueryLines, endColumn \in QueryColumns,
          outcome \in PastEndOutcomes :
           ForEachBreakpointLocation(startLine, startColumn, endLine, endColumn, outcome)

Spec == Init /\ [][Next]_vars

(* ---------------- the index with freely chosen positions ---------------- *)

\* JSTextPositions whose line, column and offset do not depend on each
\* other, as the append methods accept them.
RawPositions ==
    {JSTextPosition(line, offset, lineStartOffset) :
        line \in 1..2, offset \in 1..2, lineStartOffset \in 0..1}

\* appendEntry / appendLeave / appendPause with any JSTextPosition.
AppendRaw(type, position) ==
    /\ ~sorted
    /\ Len(m_positions) < MaxRawLen
    /\ m_positions' = Append(m_positions, DebuggerPausePosition(type, position))
    /\ op' = "append"
    /\ UNCHANGED << sorted, args, it, result, visited, fault, gather >>
    /\ UNCHANGED elsewhere

\* DebuggerPausePositions::sort() on such records: std::sort leaves one of
\* the orderings that its comparator allows.
SortRaw ==
    /\ ~sorted
    /\ m_positions' \in SortOutcomes(m_positions)
    /\ sorted' = TRUE
    /\ op' = "sort"
    /\ UNCHANGED << args, it, result, visited, fault, gather >>
    /\ UNCHANGED elsewhere

NextRaw ==
    \/ \E type \in StoredTypes, position \in RawPositions : AppendRaw(type, position)
    \/ SortRaw

SpecRaw == Init /\ [][NextRaw]_vars

(* --------------------- gathering the parse data ------------------------- *)

\* The values of provider->sourceType() that the switch tells apart.
SourceTypes == {"Program", "Module", "WebAssembly"}

\* The source types with a case that calls gatherDebuggerParseData<T>.
ParsedSourceTypes == {"Program", "Module"}

\* gatherDebuggerParseDataForSource up to its switch: Program and Module
\* sources enter gatherDebuggerParseData<T>, any other returns false.
GatherDebuggerParseDataForSource(sourceType) ==
    /\ gather.pc = "idle"
    /\ gather' = IF sourceType \in ParsedSourceTypes
                 THEN [gather EXCEPT !.pc = "parse", !.sourceType = sourceType]
                 ELSE [gather EXCEPT !.pc = "done", !.sourceType = sourceType,
                                     !.returned = "false"]
    /\ UNCHANGED << m_positions, sorted, op, args, it, result, visited, fault >>
    /\ UNCHANGED elsewhere

\* parseRootNode appends a record while it walks the source.
ParseAppend(type, position) ==
    /\ gather.pc = "parse"
    /\ Len(m_positions) < MaxParsed
    /\ m_positions' = Append(m_positions, DebuggerPausePosition(type, position))
    /\ op' = "append"
    /\ UNCHANGED << sorted, args, it, result, visited, fault, gather >>
    /\ UNCHANGED elsewhere

\* Variant of gatherDebuggerParseData<T>: sort() runs before the root node
\* is tested.
GatherDebuggerParseDataSortFirst(rootNode) ==
    /\ gather.pc = "parse"
    /\ m_positions' = SortedByOffset(m_positions)
    /\ sorted' = TRUE
    /\ op' = "sort"
    /\ gather' = [gather EXCEPT !.pc = "done", !.rootNode = rootNode,
                                !.sortCalls = @ + 1,
                                !.returned = IF rootNode THEN "true" ELSE "false"]
    /\ UNCHANGED << args, it, result, visited, fault >>
    /\ UNCHANGED elsewhere

\* gatherDebuggerParseData<T> once parseRootNode has returned: without a
\* root node it returns false, with one it sorts and returns true.
GatherDebuggerParseData(rootNode) ==
    /\ gather.pc = "parse"
    /\ IF ~rootNode
       THEN /\ gather' = [gather EXCEPT !.pc = "done", !.rootNode = FALSE,
                                        !.returned = "false"]
            /\ UNCHANGED << m_positions, sorted, op >>
       ELSE /\ m_positions' = SortedByOffset(m_positions)
            /\ sorted' = TRUE
            /\ op' = "sort"
            /\ gather' = [gather EXCEPT !.pc = "done", !.rootNode = TRUE,
                                        !.sortCalls = @ + 1, !.returned = "true"]
    /\ UNCHANGED << args, it, result, visited, fault >>
    /\ UNCHANGED elsewhere

NextGather ==
    \/ \E sourceType \in SourceTypes : GatherDebuggerParseDataForSource(sourceType)
    \/ \E type \in StoredTypes, position \in SourcePositions : ParseAppend(type, position)
    \/ \E rootNode \in BOOLEAN : GatherDebuggerParseData(rootNode)

SpecGather == Init /\ [][NextGather]_vars

(* ------------------ PreciseAllocation::testAndSetMarked ----------------- *)

\* Atomic<bool>::compareExchangeStrong(expected, desired) on a bit that
\* holds value: the bit afterwards, and the value returned, which is the
\* value the bit held before.
compareExchangeStrong(value, expected, desired) ==
    [value |-> IF value = expected THEN desired ELSE value, returned |-> value]

\* A bool as the markers record it.
BoolText(b) == IF b THEN "true" ELSE "false"

\* What m_isMarked.load(std::memory_order_relaxed) can give thread t: the
\* bit as it is, or the clear bit of before the marking when t has not read
\* the set bit yet.
RelaxedLoads(t) ==
    {m_isMarked} \cup (IF markers[t].observed THEN {} ELSE {FALSE})

\* if (isMarked()) return true;
TestAndSetMarkedTest(t, loaded) ==
    /\ markers[t].pc = "idle"
    /\ loaded \in RelaxedLoads(t)
    /\ markers' = [markers EXCEPT ![t] =
           IF loaded
           THEN [@ EXCEPT !.pc = "returned", !.observed = TRUE, !.returned = "true"]
           ELSE [@ EXCEPT !.pc = "cas"]]
    /\ UNCHANGED m_isMarked
    /\ UNCHANGED << indexVars, stackmapVars, controllerVars, disassemblerVars, readerVars >>

\* Variant of TestAndSetMarkedSwap: the bit is set with a plain store and
\* the value the test read is returned.
TestAndSetMarkedStore(t) ==
    /\ markers[t].pc = "cas"
    /\ m_isMarked' = TRUE
    /\ markers' = [markers EXCEPT ![t] =
           [@ EXCEPT !.pc = "returned", !.observed = TRUE,
                     !.setBit = ~m_isMarked, !.returned = "false"]]
    /\ UNCHANGED << indexVars, stackmapVars, controllerVars, disassemblerVars, readerVars >>

\* return m_isMarked.compareExchangeStrong(false, true);
TestAndSetMarkedSwap(t) ==
    /\ markers[t].pc = "cas"
    /\ LET swap == compareExchangeStrong(m_isMarked, FALSE, TRUE)
       IN /\ m_isMarked' = swap.value
          /\ markers' = [markers EXCEPT ![t] =
                 [@ EXCEPT !.pc = "returned", !.observed = TRUE,
                           !.setBit = (m_isMarked = FALSE),
                           !.returned = BoolText(swap.returned)]]
    /\ UNCHANGED << indexVars, stackmapVars, controllerVars, disassemblerVars, readerVars >>

\* isMarked(), called by a thread whose testAndSetMarked() has returned.
IsMarked(t, loaded) ==
    /\ markers[t].pc = "returned"
    /\ loaded \in RelaxedLoads(t)
    /\ markers' = [markers EXCEPT ![t] = [@ EXCEPT !.pc = "done", !.seen = BoolText(loaded)]]
    /\ UNCHANGED m_isMarked
    /\ UNCHANGED << indexVars, stackmapVars, controllerVars, disassemblerVars, readerVars >>

NextMarked ==
    \/ \E t \in Markers, loaded \in BOOLEAN : TestAndSetMarkedTest(t, loaded)
    \/ \E t \in Markers : TestAndSetMarkedSwap(t)
    \/ \E t \in Markers, loaded \in BOOLEAN : IsMarked(t, loaded)

SpecMarked == Init /\ [][NextMarked]_vars

(* ------------------- StackmapSpecial::admitsStackImpl ------------------- *)

\* A C++ unsigned is 32 bits wide; it is kept as two halves of 16 bits, hi
\* and lo, each below HalfWord.
HalfWord == 65536

Unsigned(n) == [hi |-> (n \div HalfWord) % HalfWord, lo |-> n % HalfWord]

\* a - b and a + b of unsigned values, modulo 2^32.
UnsignedMinus(a, b) ==
    LET borrow == IF a.lo < b.lo THEN 1 ELSE 0
    IN [hi |-> (a.hi - b.hi - borrow + HalfWord) % HalfWord,
        lo |-> (a.lo - b.lo + HalfWord) % HalfWord]

UnsignedPlus(a, b) ==
    LET carry == (a.lo + b.lo) \div HalfWord
    IN [hi |-> (a.hi + b.hi + carry) % HalfWord, lo |-> (a.lo + b.lo) % HalfWord]

\* a >= b of unsigned values.
UnsignedAtLeast(a, b) == a.hi > b.hi \/ (a.hi = b.hi /\ a.lo >= b.lo)

\* unsigned stackmapArgIndex = argIndex - numIgnoredAirArgs + numIgnoredB3Args;
StackmapArgIndex(numIgnoredB3Args, numIgnoredAirArgs, argIndex) ==
    UnsignedPlus(UnsignedMinus(Unsigned(argIndex), Unsigned(numIgnoredAirArgs)),
                 Unsigned(numIgnoredB3Args))

\* StackmapSpecial::admitsStackImpl for a StackmapValue with numChildren
\* children and the constraints m_reps.
admitsStackImpl(numIgnoredB3Args, numIgnoredAirArgs, numChildren, m_reps, argIndex) ==
    LET stackmapArgIndex == StackmapArgIndex(numIgnoredB3Args, numIgnoredAirArgs, argIndex)
    IN IF UnsignedAtLeast(stackmapArgIndex, Unsigned(numChildren)) THEN FALSE
       ELSE IF UnsignedAtLeast(stackmapArgIndex, Unsigned(Len(m_reps))) THEN TRUE
       ELSE IF m_reps[stackmapArgIndex.lo + 1].isAny THEN TRUE
       ELSE FALSE

\* The constraints a StackmapValue with numChildren children can hold: at
\* most one ValueRep for each child, of which isAny() is true or false.
Reps(numChildren) ==
    UNION {[1..n -> {[isAny |-> TRUE], [isAny |-> FALSE]}] : n \in 0..numChildren}

AdmitsStackImpl(numIgnoredB3Args, numIgnoredAirArgs, numChildren, m_reps, argIndex) ==
    /\ admits.pc = "idle"
    /\ admits' = [pc |-> "done", numIgnoredB3Args |-> numIgnoredB3Args,
                  numIgnoredAirArgs |-> numIgnoredAirArgs, argIndex |-> argIndex,
                  numChildren |-> numChildren, m_reps |-> m_reps,
                  returned |-> admitsStackImpl(numIgnoredB3Args, numIgnoredAirArgs,
                                               numChildren, m_reps, argIndex)]
    /\ UNCHANGED << indexVars, markVars, controllerVars, disassemblerVars, readerVars >>

NextStackmap ==
    \E numIgnoredB3Args \in 0..MaxIgnored, numIgnoredAirArgs \in 0..MaxIgnored,
       numChildren \in 0..MaxChildren, argIndex \in 0..MaxArgIndex :
        \E m_reps \in Reps(numChildren) :
            AdmitsStackImpl(numIgnoredB3Args, numIgnoredAirArgs, numChildren, m_reps,
                            argIndex)

SpecStackmap == Init /\ [][NextStackmap]_vars

(* -------------------- ComplexTextController::advance -------------------- *)

Max(a, b) == IF a >= b THEN a ELSE b

Min(a, b) == IF a <= b THEN a ELSE b

\* ComplexTextRun::glyphCount() and indexAt(i); glyphs and characters are
\* counted from 0 as in the code.
glyphCount(complexTextRun) == Len(complexTextRun.m_coreTextIndices)

indexAt(complexTextRun, i) == complexTextRun.m_coreTextIndices[i + 1]

\* adjustGlyphsAndAdvances: a run is monotonic when its character indices
\* never go against the direction of the TextRun.
IsMonotonic(complexTextRun, runLTR) ==
    \A i \in 1..(glyphCount(complexTextRun) - 1) :
        IF runLTR THEN indexAt(complexTextRun, i) >= indexAt(complexTextRun, i - 1)
        ELSE indexAt(complexTextRun, i) <= indexAt(complexTextRun, i - 1)

\* ComplexTextRun::setIsNonMonotonic: the end offset of glyph i is the next
\* greater character index that some glyph of the run maps, or m_indexEnd.
GlyphEndOffset(complexTextRun, i) ==
    LET mapped == {indexAt(complexTextRun, g) : g \in 0..(glyphCount(complexTextRun) - 1)}
        later == {j \in mapped : j > indexAt(complexTextRun, i)}
    IN IF later = {} THEN complexTextRun.m_indexEnd
       ELSE CHOOSE j \in later : \A k \in later : j <= k

\* A ComplexTextRun as collectComplexTextRuns and adjustGlyphsAndAdvances
\* leave it.
ComplexTextRun(stringLocation, indexEnd, ltr, stringIndices, runLTR) ==
    LET raw == [m_stringLocation |-> stringLocation, m_indexBegin |-> 0,
                m_indexEnd |-> indexEnd, m_isLTR |-> ltr,
                m_coreTextIndices |-> stringIndices]
    IN [m_stringLocation |-> stringLocation, m_indexBegin |-> 0,
        m_indexEnd |-> indexEnd, m_isLTR |-> ltr,
        m_coreTextIndices |-> stringIndices,
        m_isMonotonic |-> IsMonotonic(raw, runLTR),
        m_glyphEndOffsets |-> [g \in 1..Len(stringIndices) |-> GlyphEndOffset(raw, g - 1)]]

\* The texts the controllers are constructed for: the direction and length
\* of the TextRun and the runs Core Text shaped, in visual order.
TextLayouts ==
    { \* three characters, one glyph each
      [ltr |-> TRUE, length |-> 3,
       runs |-> << ComplexTextRun(0, 3, TRUE, << 0, 1, 2 >>, TRUE) >>],
      \* a ligature of the first two characters
      [ltr |-> TRUE, length |-> 3,
       runs |-> << ComplexTextRun(0, 3, TRUE, << 0, 2 >>, TRUE) >>],
      \* two glyphs for the first character
      [ltr |-> TRUE, length |-> 2,
       runs |-> << ComplexTextRun(0, 2, TRUE, << 0, 0, 1 >>, TRUE) >>],
      \* two runs from left to right
      [ltr |-> TRUE, length |-> 3,
       runs |-> << ComplexTextRun(0, 2, TRUE, << 0, 1 >>, TRUE),
                   ComplexTextRun(2, 1, TRUE, << 0 >>, TRUE) >>],
      \* one run from right to left
      [ltr |-> FALSE, length |-> 3,
       runs |-> << ComplexTextRun(0, 3, FALSE, << 2, 1, 0 >>, FALSE) >>],
      \* a right-to-left text of two runs, the later characters first
      [ltr |-> FALSE, length |-> 3,
       runs |-> << ComplexTextRun(2, 1, FALSE, << 0 >>, FALSE),
                   ComplexTextRun(0, 2, FALSE, << 1, 0 >>, FALSE) >>],
      \* a right-to-left run inside a left-to-right text
      [ltr |-> TRUE, length |-> 4,
       runs |-> << ComplexTextRun(0, 2, TRUE, << 0, 1 >>, TRUE),
                   ComplexTextRun(2, 2, FALSE, << 1, 0 >>, TRUE) >>],
      \* glyphs out of character order
      [ltr |-> TRUE, length |-> 3,
       runs |-> << ComplexTextRun(0, 3, TRUE, << 1, 0, 2 >>, TRUE) >>],
      \* the empty text
      [ltr |-> TRUE, length |-> 0, runs |-> << >>] }

\* stringBegin(run)
stringBegin(complexTextRun) ==
    complexTextRun.m_stringLocation + complexTextRun.m_indexBegin

\* finishConstruction: the indices of the runs, ordered by stringBegin.
RunIndices(runs) ==
    CHOOSE order \in [1..Len(runs) -> 0..(Len(runs) - 1)] :
        /\ \A i, j \in 1..Len(runs) : i # j => order[i] # order[j]
        /\ \A i \in 1..(Len(runs) - 1) :
               stringBegin(runs[order[i] + 1]) < stringBegin(runs[order[i + 1] + 1])

RECURSIVE GlyphCountBefore(_, _)
GlyphCountBefore(runs, i) ==
    IF i = 0 THEN 0 ELSE GlyphCountBefore(runs, i - 1) + glyphCount(runs[i])

\* The controller the constructor leaves for a layout.
ComplexTextController(layout) ==
    [pc |-> "constructed",
     m_end |-> layout.length,
     m_complexTextRuns |-> layout.runs,
     m_isLTROnly |-> \A i \in 1..Len(layout.runs) : layout.runs[i].m_isLTR,
     m_runIndices |-> RunIndices(layout.runs),
     m_glyphCountFromStartToIndex |->
         [i \in 1..Len(layout.runs) |-> GlyphCountBefore(layout.runs, i - 1)],
     m_currentCharacter |-> 0,
     m_runWidthSoFar |-> << >>,
     m_numGlyphsSoFar |-> 0,
     m_currentRun |-> 0,
     m_glyphInCurrentRun |-> 0,
     m_characterInCurrentGlyph |-> 0,
     layout |-> layout,
     advances |-> << >>]

\* indexOfCurrentRun(leftmostGlyph): the index it returns and the value it
\* leaves in leftmostGlyph.
indexOfCurrentRun(c) ==
    LET runCount == Len(c.m_complexTextRuns)
    IN IF c.m_currentRun >= runCount
       THEN [index |-> runCount, leftmostGlyph |-> 0]
       ELSE IF c.m_isLTROnly
       THEN [index |-> c.m_currentRun,
             leftmostGlyph |-> GlyphCountBefore(c.m_complexTextRuns, c.m_currentRun)]
       ELSE LET currentRunIndex == c.m_runIndices[c.m_currentRun + 1]
            IN [index |-> currentRunIndex,
                leftmostGlyph |-> c.m_glyphCountFromStartToIndex[currentRunIndex + 1]]

\* incrementCurrentRun(leftmostGlyph): the controller afterwards, the index
\* returned and the value left in leftmostGlyph.
incrementCurrentRun(c, leftmostGlyph) ==
    LET next == [c EXCEPT !.m_currentRun = @ + 1]
    IN IF c.m_isLTROnly
       THEN [controller |-> next, index |-> next.m_currentRun,
             leftmostGlyph |->
                 leftmostGlyph + glyphCount(c.m_complexTextRuns[c.m_currentRun + 1])]
       ELSE [controller |-> next, index |-> indexOfCurrentRun(next).index,
             leftmostGlyph |-> indexOfCurrentRun(next).leftmostGlyph]

\* runWidthSoFarFraction, as the pair of the numerator and the denominator
\* of the fraction; c is the controller with m_characterInCurrentGlyph set.
runWidthSoFarFraction(c, glyphStartOffset, glyphEndOffset, oldCharacterInCurrentGlyph, iterationStyle) ==
    IF glyphStartOffset = glyphEndOffset THEN << 1, 1 >>
    ELSE IF iterationStyle = "ByWholeGlyphs"
    THEN (IF oldCharacterInCurrentGlyph = 0 THEN << 1, 1 >> ELSE << 0, 1 >>)
    ELSE << c.m_characterInCurrentGlyph - oldCharacterInCurrentGlyph,
            glyphEndOffset - glyphStartOffset >>

\* while (m_glyphInCurrentRun < glyphCount) { ... }: the controller
\* afterwards, and whether advance() returned from inside the loop.
\* m_runWidthSoFar is kept as the sequence of the terms added to it: the
\* glyph whose advance is added, and the fraction of it.
RECURSIVE GlyphLoop(_, _, _, _, _)
GlyphLoop(c, currentRunIndex, indexOfLeftmostGlyphInCurrentRun, glyphIndexIntoCurrentRun, iterationStyle) ==
    LET complexTextRun == c.m_complexTextRuns[currentRunIndex + 1]
        ltr == complexTextRun.m_isLTR
        count == glyphCount(complexTextRun)
    IN IF ~(c.m_glyphInCurrentRun < count) THEN [controller |-> c, returned |-> FALSE]
       ELSE
       LET glyphStartOffset == indexAt(complexTextRun, glyphIndexIntoCurrentRun)
           glyphEndOffset ==
               IF complexTextRun.m_isMonotonic
               THEN (IF ltr
                     THEN Max(glyphStartOffset,
                              IF glyphIndexIntoCurrentRun + 1 < count
                              THEN indexAt(complexTextRun, glyphIndexIntoCurrentRun + 1)
                              ELSE complexTextRun.m_indexEnd)
                     ELSE Max(glyphStartOffset,
                              IF glyphIndexIntoCurrentRun > 0
                              THEN indexAt(complexTextRun, glyphIndexIntoCurrentRun - 1)
                              ELSE complexTextRun.m_indexEnd))
               ELSE complexTextRun.m_glyphEndOffsets[glyphIndexIntoCurrentRun + 1]
       IN IF glyphStartOffset + complexTextRun.m_stringLocation >= c.m_currentCharacter
          THEN [controller |-> c, returned |-> TRUE]
          ELSE
          LET oldCharacterInCurrentGlyph == c.m_characterInCurrentGlyph
              inGlyph == [c EXCEPT !.m_characterInCurrentGlyph =
                             Min(c.m_currentCharacter - complexTextRun.m_stringLocation,
                                 glyphEndOffset) - glyphStartOffset]
              measured == [inGlyph EXCEPT !.m_runWidthSoFar =
                              Append(@, [glyph |-> indexOfLeftmostGlyphInCurrentRun
                                                       + glyphIndexIntoCurrentRun,
                                         fraction |->
                                             runWidthSoFarFraction(inGlyph,
                                                 glyphStartOffset, glyphEndOffset,
                                                 oldCharacterInCurrentGlyph,
                                                 iterationStyle)])]
          IN IF glyphEndOffset + complexTextRun.m_stringLocation > c.m_currentCharacter
             THEN [controller |-> measured, returned |-> TRUE]
             ELSE GlyphLoop([measured EXCEPT !.m_numGlyphsSoFar = @ + 1,
                                             !.m_glyphInCurrentRun = @ + 1,
                                             !.m_characterInCurrentGlyph = 0],
                            currentRunIndex, indexOfLeftmostGlyphInCurrentRun,
                            IF ltr THEN glyphIndexIntoCurrentRun + 1
                            ELSE glyphIndexIntoCurrentRun - 1,
                            iterationStyle)

\* while (m_currentRun < runCount) { ... }
RECURSIVE RunLoop(_, _, _, _)
RunLoop(c, currentRunIndex, indexOfLeftmostGlyphInCurrentRun, iterationStyle) ==
    IF ~(c.m_currentRun < Len(c.m_complexTextRuns)) THEN c
    ELSE LET complexTextRun == c.m_complexTextRuns[currentRunIndex + 1]
             glyphIndexIntoCurrentRun ==
                 IF complexTextRun.m_isLTR THEN c.m_glyphInCurrentRun
                 ELSE glyphCount(complexTextRun) - 1 - c.m_glyphInCurrentRun
             glyphs == GlyphLoop(c, currentRunIndex, indexOfLeftmostGlyphInCurrentRun,
                                 glyphIndexIntoCurrentRun, iterationStyle)
         IN IF glyphs.returned THEN glyphs.controller
            ELSE LET next == incrementCurrentRun(glyphs.controller,
                                                 indexOfLeftmostGlyphInCurrentRun)
                 IN RunLoop([next.controller EXCEPT !.m_glyphInCurrentRun = 0],
                            next.index, next.leftmostGlyph, iterationStyle)

\* Variant of ResetIfBefore: m_currentRun is left as it is.
ResetGlyphsOnly(c, offset) ==
    IF offset < c.m_currentCharacter
    THEN [c EXCEPT !.m_runWidthSoFar = << >>, !.m_numGlyphsSoFar = 0,
                   !.m_glyphInCurrentRun = 0, !.m_characterInCurrentGlyph = 0]
    ELSE c

\* if (offset < m_currentCharacter) { ... }
ResetIfBefore(c, offset) ==
    IF offset < c.m_currentCharacter
    THEN [c EXCEPT !.m_runWidthSoFar = << >>, !.m_numGlyphsSoFar = 0,
                   !.m_currentRun = 0, !.m_glyphInCurrentRun = 0,
                   !.m_characterInCurrentGlyph = 0]
    ELSE c

\* ComplexTextController::advance(offset, nullptr, iterationStyle, nullptr)
advance(c, offset, iterationStyle) ==
    LET clamped == IF offset > c.m_end THEN c.m_end ELSE offset
        started == [ResetIfBefore(c, clamped) EXCEPT !.m_currentCharacter = clamped]
        current == indexOfCurrentRun(started)
    IN RunLoop(started, current.index, current.leftmostGlyph, iterationStyle)

GlyphIterationStyles == {"IncludePartialGlyphs", "ByWholeGlyphs"}

\* The offsets advance() is called with: up to one past the longest text.
AdvanceOffsets ==
    0..((CHOOSE n \in {layout.length : layout \in TextLayouts} :
             \A layout \in TextLayouts : layout.length <= n) + 1)

ConstructController(layout) ==
    /\ controller.pc = "none"
    /\ controller' = ComplexTextController(layout)
    /\ UNCHANGED << indexVars, markVars, stackmapVars, disassemblerVars, readerVars >>

Advance(offset, iterationStyle) ==
    /\ controller.pc = "constructed"
    /\ Len(controller.advances) < MaxAdvances
    /\ controller' = [advance(controller, offset, iterationStyle) EXCEPT
                         !.advances = Append(@, [offset |-> offset,
                                                 iterationStyle |-> iterationStyle])]
    /\ UNCHANGED << indexVars, markVars, stackmapVars, disassemblerVars, readerVars >>

NextController ==
    \/ \E layout \in TextLayouts : ConstructController(layout)
    \/ \E offset \in AdvanceOffsets, iterationStyle \in GlyphIterationStyles :
           Advance(offset, iterationStyle)

SpecController == Init /\ [][NextController]_vars

(* ----------------------- Air::Disassembler::addInst --------------------- *)

\* The instructions of the code that is compiled, and the labels of the
\* assembler.
Insts == {"inst1", "inst2", "inst3"}

Labels == {"label0", "label1"}

\* HashMap::add(key, value): a key that is in the map keeps its value; the
\* map afterwards and the isNewEntry of the result.
HashMapAdd(map, key, value) ==
    IF key \in DOMAIN map
    THEN [map |-> map, isNewEntry |-> FALSE]
    ELSE [map |-> [k \in DOMAIN map \cup {key} |->
                       IF k = key THEN value ELSE map[k]],
          isNewEntry |-> TRUE]

\* Variant of AddInst: the range is stored with HashMap::set, which replaces
\* the value of a key that is in the map, and nothing is asserted.
AddInstReplacing(inst, start, end) ==
    /\ ~disassembler.crashed
    /\ Len(disassembler.completed) <= Cardinality(Insts)
    /\ disassembler' =
           [m_instToRange |->
                [k \in DOMAIN disassembler.m_instToRange \cup {inst} |->
                     IF k = inst THEN << start, end >>
                     ELSE disassembler.m_instToRange[k]],
            call |-> [inst |-> inst, range |-> << start, end >>],
            completed |-> Append(disassembler.completed,
                                 [inst |-> inst, range |-> << start, end >>]),
            crashed |-> FALSE]
    /\ UNCHANGED << indexVars, markVars, stackmapVars, controllerVars, readerVars >>

\* Disassembler::addInst(inst, start, end); a failed RELEASE_ASSERT ends the
\* process, so the call does not complete and no call follows it.
AddInst(inst, start, end) ==
    /\ ~disassembler.crashed
    /\ LET addResult == HashMapAdd(disassembler.m_instToRange, inst, << start, end >>)
       IN disassembler' =
              [m_instToRange |-> addResult.map,
               call |-> [inst |-> inst, range |-> << start, end >>],
               completed |-> IF addResult.isNewEntry
                             THEN Append(disassembler.completed,
                                         [inst |-> inst, range |-> << start, end >>])
                             ELSE disassembler.completed,
               crashed |-> ~addResult.isNewEntry]
    /\ UNCHANGED << indexVars, markVars, stackmapVars, controllerVars, readerVars >>

NextDisassembler ==
    \E inst \in Insts, start \in Labels, end \in Labels : AddInst(inst, start, end)

SpecDisassembler == Init /\ [][NextDisassembler]_vars

(* --------------------- readers that share the index --------------------- *)

\* appendEntry / appendLeave / appendPause, called by the parse pass that
\* fills the index the readers will share.
AppendShared(type, position) ==
    /\ ~sorted
    /\ Len(m_positions) < MaxShared
    /\ m_positions' = Append(m_positions, DebuggerPausePosition(type, position))
    /\ op' = "append"
    /\ UNCHANGED << sorted, args, it, result, visited, fault, gather >>
    /\ UNCHANGED elsewhere

\* DebuggerPausePositions::sort(), run once by the parse pass; the readers
\* start after it.
SortShared ==
    /\ ~sorted
    /\ m_positions' = SortedByOffset(m_positions)
    /\ sorted' = TRUE
    /\ op' = "sort"
    /\ UNCHANGED << args, it, result, visited, fault, gather >>
    /\ UNCHANGED elsewhere

\* The (line, column) pairs the readers ask about: the positions of the
\* source text.
ReaderPositions == {<< p.line, column(p) >> : p \in SourcePositions}

\* (line, column) a is before b.
PairBefore(a, b) == a[1] < b[1] \/ (a[1] = b[1] /\ a[2] < b[2])

\* The queries of the readers; a range starts before it ends.
ReaderQueries ==
    {[kind |-> "firstPositionAfter", args |-> a] : a \in ReaderPositions}
        \cup {[kind |-> "breakpointLocationForLineColumn", args |-> a] :
                 a \in ReaderPositions}
        \cup {[kind |-> "forEachBreakpointLocation", args |-> range[1] \o range[2]] :
                 range \in {x \in ReaderPositions \X ReaderPositions :
                               PairBefore(x[1], x[2])}}

\* A reader's read past m_positions.end() has ended the process.
ProcessDied == \E r \in Readers : readers[r].fault = "crash"

\* Another reader than r is inside a query.
MidQuery(r) == \E o \in Readers \ {r} : readers[o].pc = "found"

\* Variant of ReaderFirstPositionAfter: the search stops at any record that
\* is not before the key, not at the first.
ReaderFirstPositionAfterAnyMatch(r, query) ==
    /\ sorted
    /\ ~ProcessDied
    /\ readers[r].pc = "idle"
    /\ \E found \in firstPositionAfter(m_positions, query.args[1], query.args[2])
                        ..End(m_positions) :
           readers' = [readers EXCEPT ![r] =
               [@ EXCEPT !.pc = IF query.kind = "firstPositionAfter"
                                THEN "done" ELSE "found",
                         !.kind = query.kind,
                         !.args = query.args,
                         !.it = found,
                         !.overlap = MidQuery(r)]]
    /\ UNCHANGED << indexVars, markVars, stackmapVars, controllerVars, disassemblerVars >>

\* Reader r calls a query.  Each of the three begins with the binary search
\* of firstPositionAfter, which reads m_positions and keeps the iterator in
\* a local; firstPositionAfter itself returns it.
ReaderFirstPositionAfter(r, query) ==
    /\ sorted
    /\ ~ProcessDied
    /\ readers[r].pc = "idle"
    /\ readers' = [readers EXCEPT ![r] =
           [@ EXCEPT !.pc = IF query.kind = "firstPositionAfter"
                            THEN "done" ELSE "found",
                     !.kind = query.kind,
                     !.args = query.args,
                     !.it = firstPositionAfter(m_positions, query.args[1], query.args[2]),
                     !.overlap = MidQuery(r)]]
    /\ UNCHANGED << indexVars, markVars, stackmapVars, controllerVars, disassemblerVars >>

\* Reader r's breakpointLocationForLineColumn(line, column) goes on from the
\* iterator into the three-argument overload.
ReaderBreakpointLocation(r, outcome) ==
    /\ ~ProcessDied
    /\ readers[r].pc = "found"
    /\ readers[r].kind = "breakpointLocationForLineColumn"
    /\ LET q == readers[r]
           res == breakpointLocationForLineColumnAt(m_positions, q.args[1], q.args[2],
                                                    q.it)
       IN readers' = [readers EXCEPT ![r] =
              [@ EXCEPT !.pc = "done",
                        !.result = IF res.pastEnd
                                   THEN (IF outcome.crash THEN nullopt
                                         ELSE Some(outcome.value))
                                   ELSE res,
                        !.fault = IF res.pastEnd
                                  THEN (IF outcome.crash THEN "crash" ELSE "garbage")
                                  ELSE "none",
                        !.overlap = @ \/ MidQuery(r)]]
    /\ UNCHANGED << indexVars, markVars, stackmapVars, controllerVars, disassemblerVars >>

\* Variant of ReaderForEachBreakpointLocation: the duplicates are dropped
\* from m_positions, not from the local uniquePositions.
ReaderForEachBreakpointLocationInPlace(r, outcome) ==
    /\ ~ProcessDied
    /\ readers[r].pc = "found"
    /\ readers[r].kind = "forEachBreakpointLocation"
    /\ LET q == readers[r]
           collected == CollectLoop(m_positions, q.it, q.args[3], q.args[4],
                                    [uniquePositions |-> << >>, fault |-> "none"],
                                    outcome)
       IN readers' = [readers EXCEPT ![r] =
              [@ EXCEPT !.pc = "done",
                        !.visited = SortedByLineColumn(collected.uniquePositions),
                        !.fault = collected.fault,
                        !.overlap = @ \/ MidQuery(r)]]
    /\ m_positions' = WithoutRepeats(m_positions)
    /\ UNCHANGED << sorted, op, args, it, result, visited, fault, gather >>
    /\ UNCHANGED << markVars, stackmapVars, controllerVars, disassemblerVars >>

\* Reader r's forEachBreakpointLocation goes on from the iterator: the loop
\* over the records, the sort of the local uniquePositions and the
\* callbacks.
ReaderForEachBreakpointLocation(r, outcome) ==
    /\ ~ProcessDied
    /\ readers[r].pc = "found"
    /\ readers[r].kind = "forEachBreakpointLocation"
    /\ LET q == readers[r]
           collected == CollectLoop(m_positions, q.it, q.args[3], q.args[4],
                                    [uniquePositions |-> << >>, fault |-> "none"],
                                    outcome)
       IN readers' = [readers EXCEPT ![r] =
              [@ EXCEPT !.pc = "done",
                        !.visited = SortedByLineColumn(collected.uniquePositions),
                        !.fault = collected.fault,
                        !.overlap = @ \/ MidQuery(r)]]
    /\ UNCHANGED << indexVars, markVars, stackmapVars, controllerVars, disassemblerVars >>

NextReaders ==
    \/ \E type \in StoredTypes, position \in SourcePositions :
           AppendShared(type, position)
    \/ SortShared
    \/ \E r \in Readers, query \in ReaderQueries : ReaderFirstPositionAfter(r, query)
    \/ \E r \in Readers, outcome \in PastEndOutcomes :
           ReaderBreakpointLocation(r, outcome)
    \/ \E r \in Readers, outcome \in PastEndOutcomes :
           ReaderForEachBreakpointLocation(r, outcome)

SpecReaders == Init /\ [][NextReaders]_vars

(* ======================= properties of the queries ====================== *)

\* Position p is at or after (line, col).
AtOrAfter(p, line, col) == p.line > line \/ (p.line = line /\ column(p) >= col)

\* Position p is exactly (line, col).
ExactlyAt(p, line, col) == p.line = line /\ column(p) = col

Least(S) == CHOOSE x \in S : \A y \in S : x <= y

\* The stored records at or after (line, col), and the first of them.
RecordsAtOrAfter(line, col) ==
    {i \in 1..Len(m_positions) : AtOrAfter(m_positions[i].position, line, col)}

FirstAtOrAfter(line, col) ==
    IF RecordsAtOrAfter(line, col) = {} THEN Len(m_positions) + 1
    ELSE Least(RecordsAtOrAfter(line, col))

\* Some stored record lies exactly at (line, col).
SomeRecordAt(line, col) ==
    \E i \in 1..Len(m_positions) : ExactlyAt(m_positions[i].position, line, col)

\* The scope depth at record k of a scan that started behind record first
\* with depth start: +1 for every Enter and -1 for every Leave in between.
DepthAt(first, k, start) ==
    start
    + Cardinality({j \in (first + 1)..(k - 1) : m_positions[j].type = Enter})
    - Cardinality({j \in (first + 1)..(k - 1) : m_positions[j].type = Leave})

\* The records behind first that a scan meets at depth 0 and that are not
\* an Enter.
PauseCandidates(first, start) ==
    {k \in (first + 1)..Len(m_positions) :
        DepthAt(first, k, start) = 0 /\ m_positions[k].type # Enter}

\* The state after breakpointLocationForLineColumn(line, col).
Resolved == op = "breakpointLocationForLineColumn"

QueryLine == args[1]

QueryColumn == args[2]

QueryFirst == FirstAtOrAfter(QueryLine, QueryColumn)

\* The query found no exact match and its first record is an Enter.
SlidesFromEnter ==
    /\ Resolved
    /\ QueryFirst <= Len(m_positions)
    /\ ~SomeRecordAt(QueryLine, QueryColumn)
    /\ m_positions[QueryFirst].type = Enter

\* The records of the example of section 8.
ExampleRecords ==
    << DebuggerPausePosition(Enter, JSTextPosition(3, 50, 40)),
       DebuggerPausePosition(Normal, JSTextPosition(4, 65, 60)),
       DebuggerPausePosition(Leave, JSTextPosition(5, 81, 80)) >>

\* C1: with no record exactly at the query and the first record at or after
\* it an Enter on another line, the scope of that Enter is skipped with a
\* depth counter that starts at 1: the result is the position of the first
\* later record met at depth 0 that is not an Enter, that record lies behind
\* the Leave that closes the skipped scope, and the result is absent when
\* there is no such record.  The example of section 8 with query (2,0) gives
\* an absent result.
C1_SkipScope ==
    /\ (SlidesFromEnter /\ m_positions[QueryFirst].position.line # QueryLine) =>
           LET candidates == PauseCandidates(QueryFirst, 1)
           IN /\ fault = "none"
              /\ candidates = {} => result = nullopt
              /\ candidates # {} =>
                     LET k == Least(candidates)
                     IN /\ result = Some(m_positions[k].position)
                        /\ \E m \in (QueryFirst + 1)..(k - 1) :
                               /\ m_positions[m].type = Leave
                               /\ DepthAt(QueryFirst, m, 1) = 1
    /\ breakpointLocationForLineColumn(ExampleRecords, 2, 0) = nullopt

\* A scope was skipped and the record behind its Leave was returned.
C1_Witness ==
    /\ SlidesFromEnter
    /\ m_positions[QueryFirst].position.line # QueryLine
    /\ PauseCandidates(QueryFirst, 1) # {}
    /\ result.hasValue

\* C2: with no record exactly at the query and the first record at or after
\* it an Enter on the query's line, the scan starts at depth 0: the result is
\* the position of the first following record that is not an Enter and is
\* not inside a further nested scope.
C2_StepInto ==
    (SlidesFromEnter /\ m_positions[QueryFirst].position.line = QueryLine) =>
        LET candidates == PauseCandidates(QueryFirst, 0)
        IN /\ fault = "none"
           /\ candidates # {} =>
                  result = Some(m_positions[Least(candidates)].position)

\* The scope was entered, a scope nested in it was skipped, and the record
\* behind the nested scope was returned.
C2_Witness ==
    /\ SlidesFromEnter
    /\ m_positions[QueryFirst].position.line = QueryLine
    /\ PauseCandidates(QueryFirst, 0) # {}
    /\ Least(PauseCandidates(QueryFirst, 0)) > QueryFirst + 2
    /\ result.hasValue

\* The query's first record lies exactly at the query and is an Enter.
ExactEnter ==
    /\ Resolved
    /\ QueryFirst <= Len(m_positions)
    /\ ExactlyAt(m_positions[QueryFirst].position, QueryLine, QueryColumn)
    /\ m_positions[QueryFirst].type = Enter

\* The records from first on that are not an Enter.
NotEnterFrom(first) ==
    {k \in first..Len(m_positions) : m_positions[k].type # Enter}

\* C3: when the first record at or after the query lies exactly at the query
\* and is an Enter, the iterator moves on while the type is Enter, whatever
\* the lines of those records, and the position of the first record that is
\* not an Enter is returned.  The example of section 8 with query (3,10)
\* gives (4,5).
C3_RollForward ==
    /\ (ExactEnter /\ NotEnterFrom(QueryFirst) # {}) =>
           /\ fault = "none"
           /\ result = Some(m_positions[Least(NotEnterFrom(QueryFirst))].position)
    /\ LET r == breakpointLocationForLineColumn(ExampleRecords, 3, 10)
       IN r.hasValue /\ ~r.pastEnd /\ r.value.line = 4 /\ column(r.value) = 5

\* The roll forward passed an Enter of another line before it stopped.
C3_Witness ==
    /\ ExactEnter
    /\ NotEnterFrom(QueryFirst) # {}
    /\ \E j \in QueryFirst..(Least(NotEnterFrom(QueryFirst)) - 1) :
           m_positions[j].position.line # QueryLine
    /\ result.hasValue

\* C4: if a Normal record is stored exactly at the query, the query returns
\* the query's own line and column, whatever else is stored there.
C4_NormalAtQuery ==
    (Resolved /\ \E i \in 1..Len(m_positions) :
                     /\ m_positions[i].type = Normal
                     /\ ExactlyAt(m_positions[i].position, QueryLine, QueryColumn)) =>
        /\ fault = "none"
        /\ result.hasValue
        /\ ExactlyAt(result.value, QueryLine, QueryColumn)

\* A Normal, an Enter and a Leave are stored at the query and the query
\* returned.
C4_Witness ==
    /\ Resolved
    /\ \A t \in StoredTypes :
           \E i \in 1..Len(m_positions) :
               /\ m_positions[i].type = t
               /\ ExactlyAt(m_positions[i].position, QueryLine, QueryColumn)
    /\ result.hasValue

\* The query's first record lies strictly behind the query and is not an
\* Enter.
DirectHit ==
    /\ Resolved
    /\ QueryFirst <= Len(m_positions)
    /\ ~ExactlyAt(m_positions[QueryFirst].position, QueryLine, QueryColumn)
    /\ m_positions[QueryFirst].type # Enter

\* C5: when the first record at or after the query lies strictly behind it
\* and is a Normal or a Leave, its position is the result, whatever follows.
C5_DirectHit ==
    DirectHit => (fault = "none" /\ result = Some(m_positions[QueryFirst].position))

\* A Leave behind the query was returned although other records follow it.
C5_Witness ==
    /\ DirectHit
    /\ m_positions[QueryFirst].type = Leave
    /\ QueryFirst < Len(m_positions)
    /\ m_positions[QueryFirst + 1].type = Normal
    /\ result = Some(m_positions[QueryFirst].position)

\* C6: firstPositionAfter returns the lowest-index record that is not less
\* than (line, col), the first of those stored exactly at (line, col) when
\* there are several, and end when no record is at or after (line, col).
C6_FirstPositionAfter ==
    op = "firstPositionAfter" => it = FirstAtOrAfter(QueryLine, QueryColumn)

\* Records of two types lie exactly at the query, behind an earlier record,
\* and the first of them was returned.
C6_Witness ==
    /\ op = "firstPositionAfter"
    /\ it > 1
    /\ it < Len(m_positions)
    /\ ExactlyAt(m_positions[it].position, QueryLine, QueryColumn)
    /\ ExactlyAt(m_positions[it + 1].position, QueryLine, QueryColumn)
    /\ m_positions[it].type # m_positions[it + 1].type

\* Every Enter of the index is followed, later in the sequence, by a record
\* that is not an Enter; so it is in an index where every Enter has its
\* Leave.
EveryEnterFollowed ==
    \A i \in 1..Len(m_positions) :
        m_positions[i].type = Enter =>
            \E j \in (i + 1)..Len(m_positions) : m_positions[j].type # Enter

\* C7 as stated: on every sorted index, a returned position is at or after
\* the query.
C7_AsStated ==
    (Resolved /\ result.hasValue) => AtOrAfter(result.value, QueryLine, QueryColumn)

\* C7: on a sorted index in which every Enter is followed by a record that
\* is not an Enter, a returned position is at or after the query.
C7_AtOrAfterQuery ==
    (Resolved /\ EveryEnterFollowed /\ result.hasValue) =>
        AtOrAfter(result.value, QueryLine, QueryColumn)

\* A scan that started at an Enter returned a position behind the query.
C7_Witness ==
    /\ SlidesFromEnter
    /\ EveryEnterFollowed
    /\ result.hasValue
    /\ ~ExactlyAt(result.value, QueryLine, QueryColumn)

\* C8: on an empty index, when no record is at or after the query, and when
\* the scan behind an Enter ends without a record at depth 0 that is not an
\* Enter, the result is absent and nothing behind the last record was read.
C8_NotFound ==
    (/\ Resolved
     /\ \/ m_positions = << >>
        \/ QueryFirst = Len(m_positions) + 1
        \/ /\ SlidesFromEnter
           /\ PauseCandidates(QueryFirst,
                  IF m_positions[QueryFirst].position.line = QueryLine
                  THEN 0 ELSE 1) = {})
        => (result = nullopt /\ fault = "none")

\* A scan behind an Enter ran to the end of the sequence and found nothing.
C8_Witness ==
    /\ SlidesFromEnter
    /\ QueryFirst < Len(m_positions)
    /\ PauseCandidates(QueryFirst,
           IF m_positions[QueryFirst].position.line = QueryLine THEN 0 ELSE 1) = {}
    /\ result = nullopt

\* The state after forEachBreakpointLocation.
Visited == op = "forEachBreakpointLocation"

\* C9 as stated: on every sorted index the callback gets strictly increasing
\* (line, column) pairs, hence no pair twice.
C9_AsStated ==
    Visited =>
        \A i \in 1..(Len(visited) - 1) : PositionLess(visited[i], visited[i + 1])

\* C9: on a sorted index in which every Enter is followed by a record that
\* is not an Enter, the callback gets strictly increasing (line, column)
\* pairs, hence no pair twice.
C9_StrictlyIncreasing ==
    (Visited /\ EveryEnterFollowed) =>
        /\ \A i \in 1..(Len(visited) - 1) : PositionLess(visited[i], visited[i + 1])
        /\ \A i, j \in 1..Len(visited) :
               (visited[i].line = visited[j].line
                /\ column(visited[i]) = column(visited[j])) => i = j

\* Two records of the range resolved to one position, which was visited
\* once, before a second position.
C9_Witness ==
    /\ Visited
    /\ EveryEnterFollowed
    /\ Len(visited) = 2
    /\ \E i, j \in 1..Len(m_positions) :
           /\ i < j
           /\ AtOrAfter(m_positions[i].position, args[1], args[2])
           /\ ~AtOrAfter(m_positions[j].position, args[3], args[4])
           /\ LET ri == breakpointLocationForLineColumnAt(m_positions,
                            m_positions[i].position.line,
                            column(m_positions[i].position), i)
                  rj == breakpointLocationForLineColumnAt(m_positions,
                            m_positions[j].position.line,
                            column(m_positions[j].position), j)
              IN ri.hasValue /\ ri = rj /\ ri.value = visited[1]

\* Position p lies in the half-open range of the call.
InRange(p) ==
    /\ AtOrAfter(p, args[1], args[2])
    /\ ~AtOrAfter(p, args[3], args[4])

\* C10 as stated: on every sorted index every visited position lies in the
\* half-open range.
C10_AsStated ==
    Visited => \A i \in 1..Len(visited) : InRange(visited[i])

\* C10: on a sorted index in which every Enter is followed by a record that
\* is not an Enter, every visited position is at or after the start and
\* strictly before the end of the range.
C10_InRange ==
    (Visited /\ EveryEnterFollowed) =>
        \A i \in 1..Len(visited) : InRange(visited[i])

\* A record inside the range resolved to a position at or past the end and
\* was left out, while another position was visited.
C10_Witness ==
    /\ Visited
    /\ EveryEnterFollowed
    /\ Len(visited) > 0
    /\ \E i \in 1..Len(m_positions) :
           /\ InRange(m_positions[i].position)
           /\ LET r == breakpointLocationForLineColumnAt(m_positions,
                           m_positions[i].position.line,
                           column(m_positions[i].position), i)
              IN r.hasValue /\ AtOrAfter(r.value, args[3], args[4])

\* C11: a range whose start equals its end gives the callback nothing, on
\* every index, sorted or not, and reads nothing behind the last record.
C11_EmptyRange ==
    /\ (Visited /\ args[1] = args[3] /\ args[2] = args[4]) =>
           (visited = << >> /\ fault = "none")
    /\ ~sorted =>
           \A line \in QueryLines, col \in QueryColumns :
               LET r == forEachBreakpointLocation(m_positions, line, col, line, col,
                                                  [crash |-> TRUE, value |-> NoPosition])
               IN r.callbacks = << >> /\ r.fault = "none"

\* The range was empty, a record lies exactly at its start, and nothing was
\* visited.
C11_Witness ==
    /\ Visited
    /\ args[1] = args[3]
    /\ args[2] = args[4]
    /\ Len(m_positions) > 1
    /\ \E i \in 1..Len(m_positions) :
           /\ ExactlyAt(m_positions[i].position, args[1], args[2])
           /\ m_positions[i].type = Normal
    /\ visited = << >>

\* What the resolution of record i gives when a read behind the last record
\* gives outcome.
ResolvedRecord(i, outcome) ==
    LET r == breakpointLocationForLineColumnAt(m_positions,
                 m_positions[i].position.line, column(m_positions[i].position), i)
    IN IF r.pastEnd THEN Some(outcome.value) ELSE r

\* The resolved positions of the records of the range that are before the
\* end of the range.
ResolvedInRange(outcome) ==
    {ResolvedRecord(i, outcome).value :
        i \in {j \in 1..Len(m_positions) :
                 /\ InRange(m_positions[j].position)
                 /\ ResolvedRecord(j, outcome).hasValue
                 /\ ~AtOrAfter(ResolvedRecord(j, outcome).value, args[3], args[4])}}

C15_SortIdempotent ==
    [][(sorted /\ op' = "sortAgain") => m_positions' = m_positions]_vars

\* An index of four records, two of them of different types at one offset,
\* was sorted a second time.
C15_Witness ==
    /\ op = "sortAgain"
    /\ Len(m_positions) = 4
    /\ m_positions[1].position # m_positions[4].position
    /\ \E i \in 1..3 :
           /\ m_positions[i].position = m_positions[i + 1].position
           /\ m_positions[i].type # m_positions[i + 1].type

QueryOps ==
    {"firstPositionAfter", "breakpointLocationForLineColumn",
     "forEachBreakpointLocation"}

\* C17: the three queries leave the stored records and their order as they
\* are, and once the index is sorted only sort() is a step that can change
\* them.
C17_QueriesKeepIndex ==
    [][/\ op' \in QueryOps => (m_positions' = m_positions /\ sorted' = sorted)
       /\ (sorted /\ m_positions' # m_positions) => op' = "sortAgain"]_vars

\* forEachBreakpointLocation reported one position for an index that holds
\* a record twice.
C17_Witness ==
    /\ Visited
    /\ Len(visited) = 1
    /\ Len(m_positions) = 4
    /\ \E i \in 1..3 : m_positions[i] = m_positions[i + 1]

\* Every Enter of the index has a matching Leave later in the sequence: a
\* Leave with as many Enters as Leaves between the two.
WellFormedIndex ==
    \A i \in 1..Len(m_positions) :
        m_positions[i].type = Enter =>
            \E j \in (i + 1)..Len(m_positions) :
                /\ m_positions[j].type = Leave
                /\ DepthAt(i, j, 1) = 1

\* C18: on a sorted index in which every Enter has its matching Leave, the
\* roll forward of an exact match stops on a stored record: no query reads
\* at or behind the end of the sequence.
C18_RollForwardInside ==
    /\ (op \in QueryOps /\ WellFormedIndex) => fault = "none"
    /\ (sorted /\ WellFormedIndex) =>
           \A i \in 1..Len(m_positions) : RollForward(m_positions, i) <= Len(m_positions)

\* An exact match rolled forward over two Enters and stopped on a Leave.
C18_Witness ==
    /\ ExactEnter
    /\ WellFormedIndex
    /\ QueryFirst + 2 <= Len(m_positions)
    /\ m_positions[QueryFirst + 1].type = Enter
    /\ m_positions[QueryFirst + 2].type = Leave
    /\ result = Some(m_positions[QueryFirst + 2].position)

\* C19: after sort(), where records of several types share a line and
\* column, no record of another type comes before an Enter of that line and
\* column.
C19_EnterFirst ==
    sorted =>
        \A i, j \in 1..Len(m_positions) :
            (/\ i < j
             /\ m_positions[j].type = Enter
             /\ ExactlyAt(m_positions[i].position, m_positions[j].position.line,
                          column(m_positions[j].position)))
                => m_positions[i].type = Enter

\* Two Enters, a Normal and a Leave share one line and column of a sorted
\* index.
C19_Witness ==
    /\ op = "sort"
    /\ Len(m_positions) = 4
    /\ \A i \in 1..4 : m_positions[i].position = m_positions[1].position
    /\ m_positions[1].type = Enter
    /\ m_positions[2].type = Enter
    /\ m_positions[3].type = Normal
    /\ m_positions[4].type = Leave

\* C13: after sort() every record has a smaller offset than the next one,
\* or the same offset and a type ordinal that is not greater; the lines and
\* columns of the records do not enter the order.
C13_SortedByOffsetAndType ==
    sorted =>
        \A i \in 1..(Len(m_positions) - 1) :
            \/ m_positions[i].position.offset < m_positions[i + 1].position.offset
            \/ /\ m_positions[i].position.offset = m_positions[i + 1].position.offset
               /\ m_positions[i].type <= m_positions[i + 1].type

\* A sorted index in which a record is followed by one with a smaller line
\* or column, and in which two records of one offset and type differ in
\* their line.
C13_Witness ==
    /\ sorted
    /\ Len(m_positions) = 3
    /\ \E i \in 1..2 : LineColumnLess(m_positions[i + 1], m_positions[i])
    /\ \E i \in 1..2 :
           /\ m_positions[i].position.offset = m_positions[i + 1].position.offset
           /\ m_positions[i].type = m_positions[i + 1].type
           /\ m_positions[i].position.line # m_positions[i + 1].position.line

\* No record is followed by a record with a smaller line, or with the same
\* line and a smaller column.
NonDecreasingByLineColumn ==
    \A i \in 1..(Len(m_positions) - 1) :
        ~LineColumnLess(m_positions[i + 1], m_positions[i])

\* The offsets of the stored records agree with their lines and columns: a
\* record with a smaller offset has no greater (line, column), and records
\* of one offset have one (line, column).
OffsetsFollowLineColumn ==
    \A i, j \in 1..Len(m_positions) :
        /\ m_positions[i].position.offset < m_positions[j].position.offset
               => ~LineColumnLess(m_positions[j], m_positions[i])
        /\ m_positions[i].position.offset = m_positions[j].position.offset
               => /\ ~LineColumnLess(m_positions[j], m_positions[i])
                  /\ ~LineColumnLess(m_positions[i], m_positions[j])

\* C14 as stated: whatever lines, columns and offsets were appended, the
\* sequence is non-decreasing by (line, column) after sort().
C14_AsStated == sorted => NonDecreasingByLineColumn

\* C14: when the offsets of the appended records agree with their lines and
\* columns, the sequence is non-decreasing by (line, column) after sort().
C14_SortedByLineColumn ==
    (sorted /\ OffsetsFollowLineColumn) => NonDecreasingByLineColumn

\* Three records of two offsets and two (line, column) pairs whose offsets
\* agree with their lines and columns were sorted.
C14_Witness ==
    /\ sorted
    /\ OffsetsFollowLineColumn
    /\ Len(m_positions) = 3
    /\ m_positions[1].position.offset < m_positions[3].position.offset
    /\ LineColumnLess(m_positions[1], m_positions[3])
    /\ m_positions[1].type > m_positions[3].type

\* The number of times record r is stored in s.
Count(s, r) == Cardinality({i \in 1..Len(s) : s[i] = r})

\* C16: an append stores one more record behind the others and sort() only
\* reorders: every record is stored as often after the step as before, so a
\* record appended k times is stored k times.
C16_NoRecordLost ==
    [][/\ op' = "append" =>
              /\ Len(m_positions') = Len(m_positions) + 1
              /\ SubSeq(m_positions', 1, Len(m_positions)) = m_positions
       /\ op' = "sort" =>
              /\ Len(m_positions') = Len(m_positions)
              /\ \A i \in 1..Len(m_positions) :
                     Count(m_positions', m_positions[i])
                         = Count(m_positions, m_positions[i])]_vars

\* A sorted index that stores one record twice, next to a third record.
C16_Witness ==
    /\ sorted
    /\ Len(m_positions) = 3
    /\ \E i \in 1..3 : Count(m_positions, m_positions[i]) = 2

\* C20: gatherDebuggerParseDataForSource returns true only for a Program or
\* Module source whose parse gave a root node, and then sort() has run once,
\* on all the records of the parse; when it returns false sort() has not
\* run; no record is appended and no second sort happens after the sort.
C20_SortedOnce ==
    [][/\ gather'.returned = "true" =>
              /\ gather'.sourceType \in ParsedSourceTypes
              /\ gather'.rootNode
              /\ gather'.sortCalls = 1
              /\ sorted'
       /\ gather'.returned = "false" =>
              /\ gather'.sourceType \notin ParsedSourceTypes \/ ~gather'.rootNode
              /\ gather'.sortCalls = 0
              /\ ~sorted'
       /\ (gather'.pc = "done" /\ gather'.returned # "true") =>
              gather'.returned = "false"
       /\ gather'.sortCalls # gather.sortCalls =>
              /\ gather.pc = "parse"
              /\ gather'.pc = "done"
              /\ m_positions' = SortedByOffset(m_positions)
       /\ sorted => m_positions' = m_positions]_vars

\* The gathering of a Program or Module source returned true after the
\* parse had appended records of different offsets.
C20_Witness ==
    /\ gather.returned = "true"
    /\ gather.sortCalls = 1
    /\ Len(m_positions) >= 2
    /\ m_positions[1].position.offset < m_positions[Len(m_positions)].position.offset

(* ================= safety of breakpointLocationForLineColumn ============ *)

(* ------------------------- readers of the index ------------------------- *)

\* Reader r has finished the query kind.
Finished(r, kind) == readers[r].pc = "done" /\ readers[r].kind = kind

Given(q) == [it |-> q.it, result |-> q.result, visited |-> q.visited, fault |-> q.fault]

\* What the query (kind, args) gives when no other reader runs, its read
\* past m_positions.end(), if it makes one, ending as outcome says.
RunAlone(positions, kind, queryArgs, outcome) ==
    LET first == firstPositionAfter(positions, queryArgs[1], queryArgs[2])
    IN IF kind = "firstPositionAfter"
       THEN [it |-> first, result |-> nullopt, visited |-> << >>, fault |-> "none"]
       ELSE IF kind = "breakpointLocationForLineColumn"
       THEN LET r == breakpointLocationForLineColumn(positions, queryArgs[1],
                                                     queryArgs[2])
            IN [it |-> first,
                result |-> IF r.pastEnd
                           THEN (IF outcome.crash THEN nullopt ELSE Some(outcome.value))
                           ELSE r,
                visited |-> << >>,
                fault |-> IF r.pastEnd
                          THEN (IF outcome.crash THEN "crash" ELSE "garbage")
                          ELSE "none"]
       ELSE LET r == forEachBreakpointLocation(positions, queryArgs[1], queryArgs[2],
                                               queryArgs[3], queryArgs[4], outcome)
            IN [it |-> first, result |-> nullopt, visited |-> r.callbacks,
                fault |-> r.fault]

\* Every reader that has finished its query holds the one result the query
\* gives when it runs alone, and no reader that is inside a query has lost
\* the process to the read past the end of another.
ReadersAgree ==
    \A r \in Readers :
        /\ readers[r].pc = "done" =>
               {RunAlone(m_positions, readers[r].kind, readers[r].args, outcome) :
                    outcome \in PastEndOutcomes} = {Given(readers[r])}
        /\ readers[r].pc = "found" => ~ProcessDied

C23_NeverAnEnter ==
    (Resolved /\ WellFormedIndex /\ result.hasValue) =>
        \E i \in 1..Len(m_positions) :
            /\ m_positions[i].type # Enter
            /\ m_positions[i].position = result.value

\* A query in front of a function on a later line skipped the function and
\* returned the position of a Normal record behind its Leave.
C23_Witness ==
    /\ SlidesFromEnter
    /\ WellFormedIndex
    /\ m_positions[QueryFirst].position.line # QueryLine
    /\ result.hasValue
    /\ \E i \in (QueryFirst + 2)..Len(m_positions) :
           /\ m_positions[i].type = Normal
           /\ m_positions[i].position = result.value
    /\ \A i \in 1..Len(m_positions) :
           m_positions[i].position = result.value => m_positions[i].type = Normal

\* The first value of entryStackSize for a scan of line `line` that starts
\* at the Enter record first.
EntryStackSize(first, line) ==
    IF m_positions[first].position.line = line THEN 0 ELSE 1

\* C24: in every scan of the scope-skipping loop, from any Enter of any
\* index and for both first values of the counter, entryStackSize is at
\* least 0 at the top of every iteration.
C24_DepthNeverNegative ==
    \A first \in 1..Len(m_positions), entryStackSize \in {0, 1} :
        LET depths == SlideLoopDepths(m_positions, first + 1, entryStackSize)
        IN \A n \in 1..Len(depths) : depths[n] >= 0

\* A scan went over an index with more Leave than Enter records and met a
\* Leave with the counter at 0.
C24_Witness ==
    /\ SlidesFromEnter
    /\ Cardinality({i \in 1..Len(m_positions) : m_positions[i].type = Leave})
           > Cardinality({i \in 1..Len(m_positions) : m_positions[i].type = Enter})
    /\ LET depths == SlideLoopDepths(m_positions, QueryFirst + 1,
                                     EntryStackSize(QueryFirst, QueryLine))
       IN \E n \in 2..Len(depths) :
              /\ depths[n] = 0
              /\ depths[n - 1] = 1
              /\ m_positions[QueryFirst + n].type = Leave

\* C25: on a sorted index the iterator the two-argument overload hands to
\* the three-argument one satisfies both entry assertions whenever it is not
\* end, for every query; forEachBreakpointLocation hands every record with
\* its own line and column, which satisfy them too.
C25_EntryAssertions ==
    sorted =>
        /\ \A line \in QueryLines, col \in QueryColumns :
               LET first == firstPositionAfter(m_positions, line, col)
               IN first # End(m_positions) =>
                      EntryAssertions(m_positions, line, col, first)
        /\ \A i \in 1..Len(m_positions) :
               EntryAssertions(m_positions, m_positions[i].position.line,
                               column(m_positions[i].position), i)

\* The query stopped on a record of its own line with a greater column, in
\* front of which a record of an earlier line is stored.
C25_Witness ==
    /\ Resolved
    /\ QueryFirst <= Len(m_positions)
    /\ QueryFirst > 1
    /\ m_positions[QueryFirst].position.line = QueryLine
    /\ column(m_positions[QueryFirst].position) > QueryColumn
    /\ m_positions[QueryFirst - 1].position.line < QueryLine
    /\ QueryFirst = firstPositionAfter(m_positions, QueryLine, QueryColumn)

\* Position p resolves to itself.
ResolvesToItself(p) ==
    breakpointLocationForLineColumn(m_positions, p.line, column(p)) = Some(p)

\* C26: on a sorted index in which every Enter has its matching Leave, a
\* position that breakpointLocationForLineColumn returned resolves to
\* itself, and so does every position forEachBreakpointLocation reported.
C26_Idempotent ==
    /\ (Resolved /\ WellFormedIndex /\ result.hasValue) => ResolvesToItself(result.value)
    /\ (Visited /\ WellFormedIndex) =>
           \A n \in 1..Len(visited) : ResolvesToItself(visited[n])

\* The query returned a position behind it at which an Enter is stored too,
\* so that resolving the result again rolls forward.
C26_Witness ==
    /\ Resolved
    /\ WellFormedIndex
    /\ result.hasValue
    /\ ~ExactlyAt(result.value, QueryLine, QueryColumn)
    /\ \E i \in 1..Len(m_positions) :
           /\ m_positions[i].type = Enter
           /\ m_positions[i].position = result.value

(* ================= PreciseAllocation::testAndSetMarked ================== *)

\* The marker threads whose testAndSetMarked() has returned.
Returned == {t \in Markers : markers[t].returned # "none"}

\* C27: of the calls of testAndSetMarked() that marker threads make on a
\* clear bit, at most one returns false, and it is the call whose
\* compare-and-swap set the bit; every other call returns true; when all
\* calls have returned exactly one has returned false; and once a call has
\* returned the bit is set and isMarked() gives true.
C27_OneWinner ==
    /\ \A t \in Returned : markers[t].returned = "false" <=> markers[t].setBit
    /\ Cardinality({t \in Returned : markers[t].returned = "false"}) <= 1
    /\ Returned = Markers =>
           Cardinality({t \in Returned : markers[t].returned = "false"}) = 1
    /\ Returned # {} => m_isMarked
    /\ \A t \in Markers : markers[t].seen # "none" => markers[t].seen = "true"

\* Every call has returned, one of them false from the swap that set the
\* bit and the others true, and every thread has called isMarked() since.
C27_Witness ==
    /\ \A t \in Markers : markers[t].pc = "done"
    /\ \E t1, t2, t3 \in Markers :
           /\ markers[t1].setBit
           /\ markers[t1].returned = "false"
           /\ t2 # t1 /\ t3 # t1 /\ t2 # t3
           /\ markers[t2].returned = "true"
           /\ markers[t3].returned = "true"

(* =================== StackmapSpecial::admitsStackImpl =================== *)

\* C28 as stated: admitsStackImpl returns false for every argIndex below
\* numIgnoredAirArgs, and for every argIndex at or above it that maps at or
\* past numChildren().
C28_AsStated ==
    admits.pc = "done" =>
        /\ admits.argIndex < admits.numIgnoredAirArgs => ~admits.returned
        /\ (/\ admits.argIndex >= admits.numIgnoredAirArgs
            /\ admits.argIndex - admits.numIgnoredAirArgs + admits.numIgnoredB3Args
                   >= admits.numChildren) => ~admits.returned

\* admitsStackImpl returned true for an argIndex below numIgnoredAirArgs:
\* the sum wrapped round to the index of a child.
C28_Witness ==
    /\ admits.pc = "done"
    /\ admits.argIndex < admits.numIgnoredAirArgs
    /\ admits.returned

(* =================== ComplexTextController::advance ===================== *)

\* The counters of a controller that the glyph iteration keeps.
Counters(c) ==
    [m_numGlyphsSoFar |-> c.m_numGlyphsSoFar, m_currentRun |-> c.m_currentRun,
     m_glyphInCurrentRun |-> c.m_glyphInCurrentRun]

\* The last call of advance() and the call before it.
LastAdvance == controller.advances[Len(controller.advances)]

PreviousAdvance == controller.advances[Len(controller.advances) - 1]

\* What advance() with the arguments of the last call leaves of a freshly
\* constructed controller.
AdvancedAlone ==
    advance(ComplexTextController(controller.layout), LastAdvance.offset,
            LastAdvance.iterationStyle)

\* C29: after advance(offset) m_currentCharacter is min(offset, m_end); and
\* after advance(a) followed by advance(b) with b < a, m_numGlyphsSoFar,
\* m_currentRun and m_glyphInCurrentRun are those that advance(b) alone
\* leaves of a freshly constructed controller; when b, clamped, is below the
\* m_currentCharacter that advance(a) left, m_runWidthSoFar and
\* m_characterInCurrentGlyph are those too, the five members having been
\* reset to zero.
C29_AdvanceBackwards ==
    (controller.pc = "constructed" /\ Len(controller.advances) >= 1) =>
        /\ controller.m_currentCharacter = Min(LastAdvance.offset, controller.m_end)
        /\ (Len(controller.advances) >= 2 /\ LastAdvance.offset < PreviousAdvance.offset) =>
               /\ Counters(controller) = Counters(AdvancedAlone)
               /\ Min(LastAdvance.offset, controller.m_end)
                      < Min(PreviousAdvance.offset, controller.m_end) =>
                      /\ controller.m_runWidthSoFar = AdvancedAlone.m_runWidthSoFar
                      /\ controller.m_characterInCurrentGlyph
                             = AdvancedAlone.m_characterInCurrentGlyph

\* advance(a) went into the second run of a text and advance(b), with b < a,
\* came back into the middle of the first run.
C29_Witness ==
    /\ controller.pc = "constructed"
    /\ Len(controller.advances) = 2
    /\ LastAdvance.offset < PreviousAdvance.offset
    /\ Len(controller.m_complexTextRuns) = 2
    /\ Counters(advance(ComplexTextController(controller.layout), PreviousAdvance.offset,
                        PreviousAdvance.iterationStyle)).m_currentRun >= 1
    /\ controller.m_currentRun = 0
    /\ controller.m_numGlyphsSoFar = 1

(* ====================== Air::Disassembler::addInst ====================== *)

\* Every Inst of m_instToRange was registered by one completed call of
\* addInst and maps to the range of that call, and every completed call
\* registered its Inst.
RegisteredOnce ==
    /\ DOMAIN disassembler.m_instToRange
           = {disassembler.completed[n].inst : n \in 1..Len(disassembler.completed)}
    /\ \A inst \in DOMAIN disassembler.m_instToRange :
           \E n \in 1..Len(disassembler.completed) :
               /\ disassembler.completed[n].inst = inst
               /\ disassembler.completed[n].range = disassembler.m_instToRange[inst]
               /\ \A k \in 1..Len(disassembler.completed) :
                      disassembler.completed[k].inst = inst => k = n

\* C30: a call of addInst for an Inst that has a recorded range fails the
\* release assertion and leaves m_instToRange as it was; after every step
\* each registered Inst maps to the range of its single registration.
C30_RegisteredOnce ==
    [][/\ disassembler'.call.inst \in DOMAIN disassembler.m_instToRange =>
              /\ disassembler'.crashed
              /\ disassembler'.m_instToRange = disassembler.m_instToRange
              /\ disassembler'.completed = disassembler.completed
       /\ disassembler'.call.inst \notin DOMAIN disassembler.m_instToRange =>
              /\ ~disassembler'.crashed
              /\ disassembler'.m_instToRange[disassembler'.call.inst]
                     = disassembler'.call.range
       /\ RegisteredOnce']_vars

\* Two Insts were registered with different ranges and a second call for
\* one of them failed the assertion.
C30_Witness ==
    /\ disassembler.crashed
    /\ Cardinality(DOMAIN disassembler.m_instToRange) = 2
    /\ disassembler.call.inst \in DOMAIN disassembler.m_instToRange
    /\ disassembler.call.range # disassembler.m_instToRange[disassembler.call.inst]
    /\ \E i, j \in DOMAIN disassembler.m_instToRange :
           disassembler.m_instToRange[i] # disassembler.m_instToRange[j]

====
